---- MODULE Spec2Model ----
(***************************************************************************)
(* Model of the report-build-system directive parser                       *)
(* (directives/parser.py) and of the python-docx render pass               *)
(* (engines/docx_engine.py, directives/docx_helpers.py).                   *)
(*                                                                         *)
(* Text is modelled as a sequence of tokens.  A token stands for a run of  *)
(* characters that the regular expressions of the program never split:     *)
(* "<!--", "-->", ":", "|", one blank " ", one "#", a rule "---", a name   *)
(* such as "figure" or "/table", a word.  A line is a token sequence with  *)
(* no NL token; a text is lines joined by NL.                              *)
(***************************************************************************)
EXTENDS Integers, Sequences, FiniteSets, TLC

----------------------------------------------------------------------------
(* Bounds of the model *)

MaxLines == 4

MaxBuilds == 2

----------------------------------------------------------------------------
(* Python str operations on token sequences *)

NL == "\n"

\* characters str.strip() removes and \s matches
WS == {" ", "\t", "\n"}

NoneVal == [has |-> FALSE, v |-> <<>>]

Some(s) == [has |-> TRUE, v |-> s]

\* Python `x or ''` for an Optional[str]
OrEmpty(opt) == IF opt.has THEN opt.v ELSE <<>>

\* Python truthiness of an Optional[str]
Truthy(opt) == opt.has /\ opt.v # <<>>

RECURSIVE LStrip(_)
LStrip(s) == IF s # <<>> /\ Head(s) \in WS THEN LStrip(Tail(s)) ELSE s

RECURSIVE RStrip(_)
RStrip(s) ==
    IF s # <<>> /\ s[Len(s)] \in WS THEN RStrip(SubSeq(s, 1, Len(s) - 1)) ELSE s

\* str.strip()
Strip(s) == RStrip(LStrip(s))

RECURSIVE LStripTok(_, _)
LStripTok(s, t) == IF s # <<>> /\ Head(s) = t THEN LStripTok(Tail(s), t) ELSE s

RECURSIVE RStripTok(_, _)
RStripTok(s, t) ==
    IF s # <<>> /\ s[Len(s)] = t THEN RStripTok(SubSeq(s, 1, Len(s) - 1), t) ELSE s

\* str.strip(t) for a one-character t
StripTok(s, t) == RStripTok(LStripTok(s, t), t)

\* str.split(sep): always at least one field
RECURSIVE SplitFrom(_, _, _, _)
SplitFrom(s, sep, k, cur) ==
    IF k > Len(s) THEN <<cur>>
    ELSE IF s[k] = sep THEN <<cur>> \o SplitFrom(s, sep, k + 1, <<>>)
    ELSE SplitFrom(s, sep, k + 1, Append(cur, s[k]))

Split(s, sep) == SplitFrom(s, sep, 1, <<>>)

\* sep.join(parts)
RECURSIVE Join(_, _)
Join(parts, sep) ==
    IF parts = <<>> THEN <<>>
    ELSE IF Len(parts) = 1 THEN parts[1]
    ELSE parts[1] \o <<sep>> \o Join(Tail(parts), sep)

\* str.count(t)
Count(s, t) == Cardinality({k \in 1..Len(s) : s[k] = t})

\* str(n) for a counter value
Digit == <<"1", "2", "3", "4", "5", "6", "7", "8", "9">>

RECURSIVE Str(_)
Str(n) ==
    IF n = 0 THEN <<"0">>
    ELSE IF n < 10 THEN <<Digit[n]>>
    ELSE Str(n \div 10) \o Str(n % 10)

\* str.lower() of a name token
Lower(t) ==
    CASE t = "REF" -> "ref"
      [] t = "/TABLE" -> "/table"
      [] OTHER -> t

----------------------------------------------------------------------------
(* directives/parser.py *)

\* DirectiveType values
DirectiveNames ==
    {"figure", "equation", "table", "/table", "algorithm", "/algorithm",
     "ref", "pagebreak", "raw-docx", "/raw-docx", "style"}

BlockNames == {"table", "algorithm", "raw-docx"}

\* _BLOCK_END_MAP
BlockEnd(name) ==
    CASE name = "table" -> "/table"
      [] name = "algorithm" -> "/algorithm"
      [] name = "raw-docx" -> "/raw-docx"

\* tokens that match (/?\w[\w-]*) as a whole
NameTokens ==
    DirectiveNames \cup {"REF", "/TABLE", "note", "a", "b", "x", "cap", "hi",
                         "alpha", "beta", "Title", "Quote", "Nope", "fig",
                         "tbl", "eq", "alg", "1", "2"}

\* index of the first non-blank token at or after k  (\s*)
RECURSIVE SkipWs(_, _)
SkipWs(s, k) == IF k <= Len(s) /\ s[k] \in WS THEN SkipWs(s, k + 1) ELSE k

\* \s*-->  matches at k
TailAt(s, k) == LET e == SkipWs(s, k) IN e <= Len(s) /\ s[e] = "-->"

NoMatch == [matched |-> FALSE, name |-> "", args |-> NoneVal]

\* (?:\s*:\s*(.+?))?\s*-->  after the name, which ends before r.
\* The optional group is tried first: \s* after the colon is greedy and
\* gives blanks back, (.+?) is lazy and takes at least one token.
AfterName(s, name, r) ==
    LET c == SkipWs(s, r)
        hasColon == c <= Len(s) /\ s[c] = ":"
        starts == IF hasColon THEN (c + 1)..SkipWs(s, c + 1) ELSE {}
        ok == {<<a, e>> \in starts \X (1..Len(s)) : a <= e /\ TailAt(s, e + 1)}
    IN  IF ok # {}
        THEN LET a == CHOOSE a \in {p[1] : p \in ok} :
                          \A p \in ok : p[1] <= a
                 e == CHOOSE e \in {p[2] : p \in ok} :
                          /\ <<a, e>> \in ok
                          /\ \A p \in ok : p[1] = a => e <= p[2]
             IN [matched |-> TRUE, name |-> name,
                 args |-> Some(SubSeq(s, a, e))]
        ELSE IF TailAt(s, r)
        THEN [matched |-> TRUE, name |-> name, args |-> NoneVal]
        ELSE NoMatch

\* the pattern anchored at position p
MatchAt(s, p) ==
    IF s[p] # "<!--" THEN NoMatch
    ELSE LET q == SkipWs(s, p + 1)
         IN IF q <= Len(s) /\ s[q] \in NameTokens
            THEN AfterName(s, s[q], q + 1)
            ELSE NoMatch

\* _DIRECTIVE_RE.search(line): the leftmost match
DIRECTIVE_RE(s) ==
    LET hits == {p \in 1..Len(s) : MatchAt(s, p).matched}
    IN  IF hits = {} THEN NoMatch
        ELSE MatchAt(s, CHOOSE p \in hits : \A h \in hits : p <= h)

\* name = m.group(1).strip().lower()
TagName(m) == Lower(m.name)

\* args = [a.strip() for a in raw_args.split('|')] if raw_args else []
RECURSIVE StripAll(_)
StripAll(parts) ==
    IF parts = <<>> THEN <<>> ELSE <<Strip(Head(parts))>> \o StripAll(Tail(parts))

\* faulty variant: the fields are not trimmed
ParseArgsUntrimmed(m) ==
    IF Truthy(m.args) THEN Split(m.args.v, "|") ELSE <<>>

ParseArgs(m) ==
    IF Truthy(m.args) THEN StripAll(Split(m.args.v, "|")) ELSE <<>>

\* faulty variant: the scan also stops at the next recognized tag
RECURSIVE ScanBlockToNextTag(_, _, _)
ScanBlockToNextTag(lines, j, end_tag) ==
    IF j > Len(lines) THEN j
    ELSE LET end_m == DIRECTIVE_RE(lines[j])
         IN IF end_m.matched /\ TagName(end_m) \in DirectiveNames THEN j
            ELSE ScanBlockToNextTag(lines, j + 1, end_tag)

\* inner while loop: index of the closing line, or Len(lines)+1
RECURSIVE ScanBlock(_, _, _)
ScanBlock(lines, j, end_tag) ==
    IF j > Len(lines) THEN j
    ELSE LET end_m == DIRECTIVE_RE(lines[j])
         IN IF end_m.matched /\ TagName(end_m) = end_tag THEN j
            ELSE ScanBlock(lines, j + 1, end_tag)

\* body_lines accumulated by the inner loop for open line i, stop line j
BodyLines(lines, i, j) == SubSeq(lines, i + 1, j - 1)

\* faulty variant: the outer loop resumes at the closing tag
BlockResumeAtEndTag(j) == j

\* resume index of the outer loop after a block whose scan stopped at j
BlockResume(j) == j + 1

\* faulty variant: the loop index is stored as the line number
LineNoZeroBased(i) == i - 1

\* line=i + 1: the 1-based number of the line at loop index i, which is
\* 0-based in the code and 1-based here
LineNo(i) == i

\* faulty variant: the result list outlives the call
ResultsShared(prev) == prev

\* results: List[Directive] = [], whatever an earlier call returned
NewResults(prev) == <<>>

\* outer while loop; i is 1-based here (the code's i + 1)
RECURSIVE ParseFrom(_, _)
ParseFrom(lines, i) ==
    IF i > Len(lines) THEN <<>>
    ELSE LET m == DIRECTIVE_RE(lines[i])
         IN IF ~m.matched THEN ParseFrom(lines, i + 1)
            ELSE IF TagName(m) \notin DirectiveNames
            THEN ParseFrom(lines, i + 1)
            ELSE IF TagName(m) \in BlockNames
            THEN LET j == ScanBlock(lines, i + 1, BlockEnd(TagName(m)))
                 IN <<[type |-> TagName(m), args |-> ParseArgs(m),
                       body |-> Some(Join(BodyLines(lines, i, j), NL)),
                       line |-> LineNo(i)]>>
                    \o ParseFrom(lines, BlockResume(j))
            ELSE <<[type |-> TagName(m), args |-> ParseArgs(m),
                    body |-> NoneVal, line |-> LineNo(i)]>>
                 \o ParseFrom(lines, i + 1)

\* text.split('\n') has been applied: the argument is the list of lines
parse_directives(lines) == ParseFrom(lines, 1)

\* Directive accessors
Arg(d, k) == IF Len(d.args) >= k THEN Some(Strip(d.args[k])) ELSE NoneVal

label(d) == Arg(d, 1)

path(d) == Arg(d, 2)

caption(d) ==
    IF d.type = "figure" THEN Arg(d, 3)
    ELSE IF d.type \in {"table", "algorithm"} THEN Arg(d, 2)
    ELSE NoneVal

width(d) == Arg(d, 4)

latex(d) == Arg(d, 2)

style_name(d) == Arg(d, 1)

style_text(d) == Arg(d, 2)

----------------------------------------------------------------------------
(* Input documents: lines the build is run on *)

Tag(name) == <<"<!--", " ", name, " ", "-->">>

TagArgs(name, args) == <<"<!--", " ", name, ":", " ">> \o args \o <<" ", "-->">>

Bar == <<" ", "|", " ">>

L_alpha == <<"alpha">>

L_beta == <<"beta">>

L_blank == <<>>

L_heading == <<"#", "#", " ", "Title">>

L_rule == <<"---">>

L_note == TagArgs("note", <<"x">>)

\* <!-- figure: a -->
L_fig_label == TagArgs("figure", <<"a">>)

\* <!-- figure: a | gone.png | cap -->
L_fig_gone == TagArgs("figure", <<"a">> \o Bar \o <<"gone.png">> \o Bar \o <<"cap">>)

\* <!-- figure: b | img.png | cap | 50% -->
L_fig_img ==
    TagArgs("figure", <<"b">> \o Bar \o <<"img.png">> \o Bar \o <<"cap">>
                      \o Bar \o <<"50%">>)

\* <!-- equation: a | x -->
L_eq == TagArgs("equation", <<"a">> \o Bar \o <<"x">>)

\* <!-- equation: b | \bad -->
L_eq_bad == TagArgs("equation", <<"b">> \o Bar \o <<"\\bad">>)

\* <!-- equation -->
L_eq_plain == Tag("equation")

\* <!-- table: a | cap -->
L_table == TagArgs("table", <<"a">> \o Bar \o <<"cap">>)

\* <!-- table -->
L_table_plain == Tag("table")

L_table_end == Tag("/table")

L_row_head == <<"a", "|", "b">>

L_row_sep == <<"--", "|", "--">>

L_row_data == <<"1", "|", "2">>

\* <!-- algorithm: a | cap -->
L_alg == TagArgs("algorithm", <<"a">> \o Bar \o <<"cap">>)

L_alg_end == Tag("/algorithm")

L_raw == Tag("raw-docx")

L_raw_end == Tag("/raw-docx")

L_xml == <<"<w:p/>">>

L_ref_fig == TagArgs("ref", <<"fig", ":", "a">>)

L_ref_tbl == TagArgs("ref", <<"tbl", ":", "a">>)

L_ref_eq == TagArgs("ref", <<"eq", ":", "a">>)

L_ref_alg == TagArgs("ref", <<"alg", ":", "a">>)

L_pagebreak == Tag("pagebreak")

\* <!-- style: Quote | hi -->
L_style == TagArgs("style", <<"Quote">> \o Bar \o <<"hi">>)

\* <!-- style: Nope | hi -->
L_style_undef == TagArgs("style", <<"Nope">> \o Bar \o <<"hi">>)

\* <!-- figure a -->: a recognized name, the colon is missing
L_fig_nocolon == <<"<!--", " ", "figure", " ", "a", " ", "-->">>

\* <!-- ref:  -->: a colon and blanks only
L_ref_blank == <<"<!--", " ", "ref", ":", " ", " ", "-->">>

\* <!-- ref:-->: a colon and nothing
L_ref_empty == <<"<!--", " ", "ref", ":", "-->">>

\* <!-- figure: a |  | cap -->: an empty field
L_fig_gap == TagArgs("figure", <<"a", " ", "|", " ", " ", "|", " ", "cap">>)

\* <!-- REF: fig:a -->: the name in upper case
L_ref_upper == TagArgs("REF", <<"fig", ":", "a">>)

\* <!-- ref: fig:a --> <!-- ref: tbl:a -->: two tags on one line
L_two_refs ==
    TagArgs("ref", <<"fig", ":", "a">>) \o <<" ">>
    \o TagArgs("ref", <<"tbl", ":", "a">>)

\* all sequences over pool of length 0..n
SeqsUpTo(pool, n) == UNION {[1..k -> pool] : k \in 0..n}

----------------------------------------------------------------------------
(* State of a DocxEngine and of the build it is running *)

VARIABLES
    pc,                 \* "idle", "render", "done", "failed", "rejected"
    builds,             \* builds started on this engine
    fig_counter, tbl_counter, eq_counter, alg_counter,
    labels,             \* self._labels
    omml_cache,         \* docx_helpers._omml_cache (process wide)
    pandoc_runs,        \* conversions handed to the external converter
    config,             \* manifest['docx-direct'] of the running build
    lines,              \* content.split('\n') in _render_markdown
    directives,         \* parse_directives(content)
    i,                  \* index of the render loop, 0-based
    paragraph_buffer,   \* pending prose lines, each with its line number
    out,                \* blocks inserted into the document, in order
    dispatched,         \* line numbers of the directives dispatched so far
    failure             \* what raised, when pc = "failed"

counters == <<fig_counter, tbl_counter, eq_counter, alg_counter>>

engine == <<fig_counter, tbl_counter, eq_counter, alg_counter, labels>>

pass == <<lines, directives, i, paragraph_buffer, out, dispatched>>

vars ==
    <<pc, builds, fig_counter, tbl_counter, eq_counter, alg_counter, labels,
      omml_cache, pandoc_runs, config, lines, directives, i,
      paragraph_buffer, out, dispatched, failure>>

EmptyMap == [k \in {} |-> <<>>]

\* faulty variant: an entry that exists is kept
SetItemIfAbsent(map, k, v) == IF k \in DOMAIN map THEN map ELSE (k :> v) @@ map

\* dict[k] = v
SetItem(map, k, v) == (k :> v) @@ map

\* dict.get(k, default)
Get(map, k, default) == IF k \in DOMAIN map THEN map[k] ELSE default

----------------------------------------------------------------------------
(* The environment: template styles, files under project_root, converter *)

\* paragraph and table styles of python-docx's default template that the
\* engine names, plus one user style
DocStyles ==
    {<<"Normal">>, <<"Caption">>, <<"Table Grid">>, <<"Quote">>}
    \cup {<<"Heading ", Digit[n]>> : n \in 1..9}

\* what full_path is on disk: project_root / '' is project_root itself, a
\* directory, which build() has already required to exist
FileKind(img_path) ==
    CASE img_path = <<>> -> "directory"
      [] img_path = <<"img.png">> -> "image"
      [] OTHER -> "missing"

\* faulty variant: the image is inserted without looking for the file
ExistsUnchecked(img_path) == TRUE

\* full_path.exists()
Exists(img_path) == FileKind(img_path) # "missing"

\* run.add_picture(full_path) returns without raising
PictureReadable(img_path) == FileKind(img_path) = "image"

\* float(width.replace('%', '')) succeeds
WidthParses(w) == w \in {<<"50%">>, <<"50">>}

\* pandoc turns the expression into a document holding an m:oMath element
ConverterSucceeds(expr) == expr = <<"x">>

\* etree.fromstring(body) returns an element
IsXml(body) == Strip(body) = <<"<w:p/>">>

----------------------------------------------------------------------------
(* engines/docx_engine.py: build *)

\* _strip_front_matter on the text
StripFrontMatter(text) ==
    IF text # <<>> /\ text[1] = "---"
    THEN LET ends == {k \in 2..(Len(text) - 1) :
                          text[k] = NL /\ text[k + 1] = "---"}
         IN IF ends = {} THEN text
            ELSE LET end == CHOOSE k \in ends : \A e \in ends : k <= e
                 IN LStripTok(SubSeq(text, end + 2, Len(text)), NL)
    ELSE text

Configs ==
    {[crossref_mode |-> "seq", chapter_prefix |-> NoneVal,
      page_break_before_h2 |-> FALSE],
     [crossref_mode |-> "direct", chapter_prefix |-> Some(<<"5">>),
      page_break_before_h2 |-> TRUE]}

\* build() on a docx request: reset (when reset holds), strip the front
\* matter, parse, enter the render loop
BuildStep(doc, cfg, reset) ==
    /\ pc \in {"idle", "done", "failed", "rejected"}
    /\ builds' = builds + 1
    /\ fig_counter' = IF reset THEN 0 ELSE fig_counter
    /\ tbl_counter' = IF reset THEN 0 ELSE tbl_counter
    /\ eq_counter' = IF reset THEN 0 ELSE eq_counter
    /\ alg_counter' = IF reset THEN 0 ELSE alg_counter
    /\ labels' = IF reset THEN EmptyMap ELSE labels
    /\ config' = cfg
    /\ LET content == StripFrontMatter(Join(doc, NL))
       IN /\ lines' = Split(content, NL)
          /\ directives' = parse_directives(Split(content, NL))
    /\ i' = 0
    /\ paragraph_buffer' = <<>>
    /\ out' = <<>>
    /\ dispatched' = <<>>
    /\ failure' = "none"
    /\ pc' = "render"
    /\ UNCHANGED <<omml_cache, pandoc_runs>>

\* faulty variant: the "Reset counters" lines are missing
BuildWithoutReset(doc, cfg) == BuildStep(doc, cfg, FALSE)

\* build() on a docx request
Build(doc, cfg) == BuildStep(doc, cfg, TRUE)

\* build() with format_type other than 'docx': returns False at once
BuildRejected ==
    /\ pc \in {"idle", "done", "failed", "rejected"}
    /\ builds' = builds + 1
    /\ pc' = "rejected"
    /\ UNCHANGED <<engine, omml_cache, pandoc_runs, config, pass, failure>>

\* what build() has printed so far; parse_directives and _render_markdown
\* print nothing and return no diagnostics
Printed ==
    CASE pc = "rejected" -> <<"ERROR">>
      [] pc = "render" -> <<"Building">>
      [] pc = "done" -> <<"Building", "ok">>
      [] pc = "failed" -> <<"Building", "FAILED", "ERROR">>
      [] OTHER -> <<>>

----------------------------------------------------------------------------
(* engines/docx_engine.py: _render_markdown and its helpers *)

\* dir_map: the directive recorded for a line number (the last one wins)
DirLines == {directives[k].line : k \in 1..Len(directives)}

DirMap(n) ==
    LET ks == {k \in 1..Len(directives) : directives[k].line = n}
    IN directives[CHOOSE k \in ks : \A h \in ks : h <= k]

Rendering == pc = "render" /\ i < Len(lines)

\* the loop is at a line that dir_map holds
AtDirective(type) == Rendering /\ (i + 1) \in DirLines /\ DirMap(i + 1).type = type

RECURSIVE Texts(_)
Texts(buf) == IF buf = <<>> THEN <<>> ELSE <<Head(buf).text>> \o Texts(Tail(buf))

\* flush_paragraph: the blocks it inserts
FlushParagraph(buf) ==
    IF buf = <<>> THEN <<>>
    ELSE LET text == Strip(Join(Texts(buf), NL))
         IN IF text = <<>> THEN <<>>
            ELSE <<[kind |-> "paragraph", src |-> buf[1].n, text |-> text]>>

\* "Skip lines consumed by block directive body": the next loop index
SkipBody(d) ==
    IF d.body.has THEN i + (Count(d.body.v, NL) + 1) + 1 + 1 ELSE i + 1

\* a directive branch that returned: flushed paragraph, its blocks, next line
Emit(d, blocks) ==
    /\ out' = out \o FlushParagraph(paragraph_buffer) \o blocks
    /\ paragraph_buffer' = <<>>
    /\ dispatched' = Append(dispatched, d.line)
    /\ i' = SkipBody(d)
    /\ UNCHANGED <<pc, failure>>

\* a directive branch that raised: build() catches it and returns False
Raise(d, what) ==
    /\ out' = out \o FlushParagraph(paragraph_buffer)
    /\ paragraph_buffer' = <<>>
    /\ dispatched' = Append(dispatched, d.line)
    /\ pc' = "failed"
    /\ failure' = what
    /\ UNCHANGED i

\* num_text = f"{prefix}-{n}" if prefix else str(n)
NumText(prefix, n) == IF Truthy(prefix) THEN prefix.v \o <<"-">> \o Str(n) ELSE Str(n)

\* bookmark_name = f'_Ref_{cat}:{label}' if label else None
BookmarkName(cat, lbl) ==
    IF lbl # <<>> THEN Some(<<"_Ref_", cat, ":">> \o lbl) ELSE NoneVal

\* the key f'{cat}:{label}' of self._labels
LabelKey(cat, lbl) == <<cat, ":">> \o lbl

\* docx_helpers.make_seq_field: prefix run, bookmark, SEQ field
make_seq_field(seq_name, prefix, bookmark_name) ==
    [prefix |-> IF Truthy(prefix) THEN Some(prefix.v \o <<"-">>) ELSE NoneVal,
     bookmark |-> IF Truthy(bookmark_name) THEN bookmark_name ELSE NoneVal,
     seq |-> seq_name]

NoField == [prefix |-> NoneVal, bookmark |-> NoneVal, seq |-> ""]

\* p.style = 'Caption' inside try/except KeyError
CaptionStyle == IF <<"Caption">> \in DocStyles THEN Some(<<"Caption">>) ELSE NoneVal

\* the caption paragraph _insert_figure and _insert_table_caption build
SeqCaption(d, cat, glyph, seq_name, n) ==
    LET lbl == OrEmpty(label(d))
        cap == OrEmpty(caption(d))
        num_text == NumText(config.chapter_prefix, n)
    IN  IF config.crossref_mode = "seq"
        THEN [kind |-> "caption", src |-> d.line, cat |-> cat, num |-> n,
              text |-> <<glyph>>, after |-> <<" ">> \o cap,
              field |-> make_seq_field(seq_name, config.chapter_prefix,
                                       BookmarkName(cat, lbl)),
              style |-> CaptionStyle]
        ELSE [kind |-> "caption", src |-> d.line, cat |-> cat, num |-> n,
              text |-> <<glyph>> \o num_text \o <<" ">> \o cap, after |-> <<>>,
              field |-> NoField, style |-> CaptionStyle]

\* the image paragraph of _insert_figure
ImageBlock(d) ==
    [kind |-> "image", src |-> d.line, path |-> OrEmpty(path(d)),
     scaled |-> Truthy(width(d)) /\ WidthParses(width(d).v)]

\* _insert_figure
InsertFigure ==
    /\ AtDirective("figure")
    /\ LET d == DirMap(i + 1)
           lbl == OrEmpty(label(d))
           img_path == OrEmpty(path(d))
           n == fig_counter + 1
       IN /\ fig_counter' = n
          /\ IF Exists(img_path) /\ ~PictureReadable(img_path)
             THEN /\ Raise(d, "figure")
                  /\ UNCHANGED labels
             ELSE /\ labels' = SetItem(labels, LabelKey("fig", lbl),
                                       <<"Zu">> \o NumText(config.chapter_prefix, n))
                  /\ Emit(d, (IF Exists(img_path) THEN <<ImageBlock(d)>> ELSE <<>>)
                             \o <<SeqCaption(d, "fig", "Zu", "Figure", n)>>)
    /\ UNCHANGED <<builds, tbl_counter, eq_counter, alg_counter, omml_cache,
                   pandoc_runs, config, lines, directives>>

\* an element can have one parent: appending the cached element to a new
\* paragraph takes it out of the paragraph that held it
MoveElement(blocks, expr) ==
    [k \in 1..Len(blocks) |->
        IF blocks[k].kind = "equation" /\ blocks[k].math = "omml"
           /\ blocks[k].latex = expr
        THEN [blocks[k] EXCEPT !.math = "moved"]
        ELSE blocks[k]]

\* faulty variant: only a conversion that succeeded is found again
CachedOnSuccess(expr) == expr \in DOMAIN omml_cache /\ omml_cache[expr]

\* if latex_str in _omml_cache
Cached(expr) == expr \in DOMAIN omml_cache

\* docx_helpers.latex_to_omml: TRUE when it returns an element
OmmlResult(expr) ==
    IF Cached(expr) THEN omml_cache[expr] ELSE ConverterSucceeds(expr)

\* _insert_equation with n as the new value of self._eq_counter
EquationStep(n) ==
    /\ AtDirective("equation")
    /\ LET d == DirMap(i + 1)
           lbl == OrEmpty(label(d))
           expr == OrEmpty(latex(d))
           num_text == <<"(">> \o NumText(config.chapter_prefix, n) \o <<")">>
           omml == OmmlResult(expr)
           block ==
               [kind |-> "equation", src |-> d.line, cat |-> "eq", num |-> n,
                latex |-> expr, math |-> IF omml THEN "omml" ELSE "text",
                text |-> IF config.crossref_mode = "seq" THEN <<"(">> ELSE num_text,
                after |-> IF config.crossref_mode = "seq" THEN <<")">> ELSE <<>>,
                field |-> IF config.crossref_mode = "seq"
                          THEN make_seq_field("Equation", config.chapter_prefix,
                                              BookmarkName("eq", lbl))
                          ELSE NoField]
       IN /\ eq_counter' = n
          /\ labels' = SetItem(labels, LabelKey("eq", lbl), num_text)
          /\ omml_cache' = SetItem(omml_cache, expr, omml)
          /\ pandoc_runs' = IF Cached(expr) THEN pandoc_runs
                            ELSE Append(pandoc_runs, expr)
          /\ out' = (IF omml
                     THEN MoveElement(out \o FlushParagraph(paragraph_buffer), expr)
                     ELSE out \o FlushParagraph(paragraph_buffer)) \o <<block>>
          /\ paragraph_buffer' = <<>>
          /\ dispatched' = Append(dispatched, d.line)
          /\ i' = SkipBody(d)
    /\ UNCHANGED <<pc, failure, builds, fig_counter, tbl_counter, alg_counter,
                   config, lines, directives>>

\* faulty variant: the counter moves only for an equation that has a label
InsertEquationLabeledOnly ==
    EquationStep(IF AtDirective("equation")
                    /\ OrEmpty(label(DirMap(i + 1))) = <<>>
                 THEN eq_counter ELSE eq_counter + 1)

\* _insert_equation
InsertEquation == EquationStep(eq_counter + 1)

\* [l.strip() for l in table_md.strip().split('\n') if l.strip()]
RECURSIVE NonBlank(_)
NonBlank(ls) ==
    IF ls = <<>> THEN <<>>
    ELSE IF Strip(Head(ls)) = <<>> THEN NonBlank(Tail(ls))
    ELSE <<Strip(Head(ls))>> \o NonBlank(Tail(ls))

\* [c.strip() for c in line.strip('|').split('|')]
Cells(line) == StripAll(Split(StripTok(line, "|"), "|"))

\* re.match(r'^[\|\s\-:]+$', line)
SeparatorRe(line) ==
    line # <<>> /\ \A k \in 1..Len(line) : line[k] \in WS \cup {"|", "-", "--", "---", ":"}

\* pad with '' or truncate to num_cols
FitRow(cells, num_cols) ==
    [k \in 1..num_cols |-> IF k <= Len(cells) THEN cells[k] ELSE <<>>]

\* _render_table_body: the blocks it inserts
RenderTableBody(d) ==
    LET ls == NonBlank(Split(Strip(d.body.v), NL))
    IN  IF Len(ls) < 2 THEN <<>>
        ELSE LET header_cells == Cells(ls[1])
                 num_cols == Len(header_cells)
                 data_start == IF SeparatorRe(ls[2]) THEN 3 ELSE 2
                 data == SubSeq(ls, data_start, Len(ls))
             IN <<[kind |-> "table", src |-> d.line, header |-> header_cells,
                   rows |-> [r \in 1..Len(data) |->
                                FitRow(Cells(data[r]), num_cols)],
                   style |-> <<"Table Grid">>]>>

\* TABLE branch: _insert_table_caption, then the body
InsertTable ==
    /\ AtDirective("table")
    /\ LET d == DirMap(i + 1)
           lbl == OrEmpty(label(d))
           n == tbl_counter + 1
       IN /\ tbl_counter' = n
          /\ labels' = SetItem(labels, LabelKey("tbl", lbl),
                               <<"Hyou">> \o NumText(config.chapter_prefix, n))
          /\ Emit(d, <<SeqCaption(d, "tbl", "Hyou", "Table", n)>>
                     \o (IF Truthy(d.body) THEN RenderTableBody(d) ELSE <<>>))
    /\ UNCHANGED <<builds, fig_counter, eq_counter, alg_counter, omml_cache,
                   pandoc_runs, config, lines, directives>>

\* insert_paragraph(bline, 'Normal') for each line of the body
AlgorithmLines(d) ==
    LET bl == Split(d.body.v, NL)
    IN [k \in 1..Len(bl) |->
           [kind |-> "algorithm_line", src |-> d.line, text |-> bl[k],
            style |-> Some(<<"Normal">>)]]

\* the caption paragraph of _insert_algorithm_caption: no field, no bookmark
AlgorithmCaption(d, n) ==
    [kind |-> "caption", src |-> d.line, cat |-> "alg", num |-> n,
     text |-> <<"Algorithm ">> \o NumText(config.chapter_prefix, n)
              \o <<": ">> \o OrEmpty(caption(d)),
     after |-> <<>>, field |-> NoField, style |-> CaptionStyle]

\* ALGORITHM branch: _insert_algorithm_caption, then the body lines
InsertAlgorithm ==
    /\ AtDirective("algorithm")
    /\ LET d == DirMap(i + 1)
           lbl == OrEmpty(label(d))
           n == alg_counter + 1
       IN /\ alg_counter' = n
          /\ labels' = SetItem(labels, LabelKey("alg", lbl),
                               <<"Algorithm ">> \o NumText(config.chapter_prefix, n))
          /\ Emit(d, <<AlgorithmCaption(d, n)>>
                     \o (IF Truthy(d.body) THEN AlgorithmLines(d) ELSE <<>>))
    /\ UNCHANGED <<builds, fig_counter, tbl_counter, eq_counter, omml_cache,
                   pandoc_runs, config, lines, directives>>

\* docx_helpers.make_ref_field
make_ref_field(bookmark_name) == [instr |-> "REF", target |-> bookmark_name]

\* faulty variant: the lookup uses the bookmark name instead of the label
RefTextByBookmark(lbl) == Get(labels, <<"_Ref_">> \o lbl, <<"[">> \o lbl \o <<"]">>)

\* the text a ref shows outside 'seq' mode: self._labels.get(label, f'[{label}]')
RefText(lbl) == Get(labels, lbl, <<"[">> \o lbl \o <<"]">>)

\* REF branch
InsertRef ==
    /\ AtDirective("ref")
    /\ LET d == DirMap(i + 1)
           lbl == OrEmpty(label(d))
       IN IF config.crossref_mode = "seq"
          THEN Emit(d, <<[kind |-> "ref_field", src |-> d.line, label |-> lbl,
                          field |-> make_ref_field(<<"_Ref_">> \o lbl)]>>)
          ELSE Emit(d, <<[kind |-> "ref_text", src |-> d.line, label |-> lbl,
                          text |-> RefText(lbl)]>>)
    /\ UNCHANGED <<builds, engine, omml_cache, pandoc_runs, config, lines,
                   directives>>

\* PAGEBREAK branch
InsertPagebreak ==
    /\ AtDirective("pagebreak")
    /\ LET d == DirMap(i + 1)
       IN Emit(d, <<[kind |-> "pagebreak", src |-> d.line]>>)
    /\ UNCHANGED <<builds, engine, omml_cache, pandoc_runs, config, lines,
                   directives>>

\* RAW_DOCX branch: an XMLSyntaxError is swallowed
InsertRawDocx ==
    /\ AtDirective("raw-docx")
    /\ LET d == DirMap(i + 1)
       IN Emit(d, IF Truthy(d.body) /\ IsXml(d.body.v)
                  THEN <<[kind |-> "raw", src |-> d.line, xml |-> Strip(d.body.v)]>>
                  ELSE <<>>)
    /\ UNCHANGED <<builds, engine, omml_cache, pandoc_runs, config, lines,
                   directives>>

\* doc.add_paragraph(text, style=style) raises KeyError for a style the
\* document does not define
StyleKnown(style) == ~style.has \/ style.v \in DocStyles

\* STYLE branch: insert_paragraph(d.style_text or '', d.style_name)
InsertStyle ==
    /\ AtDirective("style")
    /\ LET d == DirMap(i + 1)
       IN IF StyleKnown(style_name(d))
          THEN Emit(d, <<[kind |-> "styled", src |-> d.line,
                          text |-> OrEmpty(style_text(d)),
                          style |-> style_name(d)]>>)
          ELSE Raise(d, "style")
    /\ UNCHANGED <<builds, engine, omml_cache, pandoc_runs, config, lines,
                   directives>>

\* a closing tag outside a block is a Directive that no branch handles
DispatchEndTag ==
    /\ \E t \in {"/table", "/algorithm", "/raw-docx"} : AtDirective(t)
    /\ Emit(DirMap(i + 1), <<>>)
    /\ UNCHANGED <<builds, engine, omml_cache, pandoc_runs, config, lines,
                   directives>>

\* the loop is at a line that dir_map does not hold
AtPlainLine == Rendering /\ (i + 1) \notin DirLines

\* re.match(r'^<!--\s*/(?:table|algorithm|raw-docx)\s*-->', stripped)
EndTagRe(stripped) ==
    /\ Len(stripped) >= 2
    /\ stripped[1] = "<!--"
    /\ LET q == SkipWs(stripped, 2)
       IN /\ q <= Len(stripped)
          /\ stripped[q] \in {"/table", "/algorithm", "/raw-docx"}
          /\ TailAt(stripped, q + 1)

\* number of leading '#'
RECURSIVE Hashes(_)
Hashes(line) == IF line # <<>> /\ Head(line) = "#" THEN 1 + Hashes(Tail(line)) ELSE 0

\* re.match(r'^(#{1,6})\s+(.+)$', line)
HeadingRe(line) ==
    LET n == Hashes(line)
    IN n \in 1..6 /\ Len(line) >= n + 2 /\ line[n + 1] \in WS

\* heading_match.group(2).strip()
HeadingText(line) == Strip(SubSeq(line, Hashes(line) + 2, Len(line)))

\* re.match(r'^(-{3,}|\*{3,}|_{3,})$', stripped)
RuleRe(stripped) == Len(stripped) = 1 /\ stripped[1] \in {"---", "***", "___"}

Step(blocks, buf) ==
    /\ out' = out \o blocks
    /\ paragraph_buffer' = buf
    /\ i' = i + 1
    /\ UNCHANGED <<pc, failure, builds, engine, omml_cache, pandoc_runs, config,
                   lines, directives, dispatched>>

\* "Skip directive end tags"
SkipEndTag ==
    /\ AtPlainLine
    /\ EndTagRe(Strip(lines[i + 1]))
    /\ Step(<<>>, paragraph_buffer)

\* "Headings"
InsertHeading ==
    /\ AtPlainLine
    /\ ~EndTagRe(Strip(lines[i + 1]))
    /\ HeadingRe(lines[i + 1])
    /\ LET level == Hashes(lines[i + 1])
       IN Step(FlushParagraph(paragraph_buffer)
               \o (IF config.page_break_before_h2 /\ level = 2
                   THEN <<[kind |-> "pagebreak", src |-> i + 1]>> ELSE <<>>)
               \o <<[kind |-> "heading", src |-> i + 1, level |-> level,
                     text |-> HeadingText(lines[i + 1]),
                     style |-> Some(<<"Heading ">> \o Str(level))]>>,
               <<>>)

\* "Blank line -> flush paragraph"
BlankLine ==
    /\ AtPlainLine
    /\ ~EndTagRe(Strip(lines[i + 1]))
    /\ ~HeadingRe(lines[i + 1])
    /\ Strip(lines[i + 1]) = <<>>
    /\ Step(FlushParagraph(paragraph_buffer), <<>>)

\* "Horizontal rule"
HorizontalRule ==
    /\ AtPlainLine
    /\ ~EndTagRe(Strip(lines[i + 1]))
    /\ ~HeadingRe(lines[i + 1])
    /\ Strip(lines[i + 1]) # <<>>
    /\ RuleRe(Strip(lines[i + 1]))
    /\ Step(FlushParagraph(paragraph_buffer), <<>>)

\* "Accumulate paragraph text"
Accumulate ==
    /\ AtPlainLine
    /\ ~EndTagRe(Strip(lines[i + 1]))
    /\ ~HeadingRe(lines[i + 1])
    /\ Strip(lines[i + 1]) # <<>>
    /\ ~RuleRe(Strip(lines[i + 1]))
    /\ Step(<<>>, Append(paragraph_buffer, [n |-> i + 1, text |-> lines[i + 1]]))

\* the loop has ended: the last flush, then doc.save
Finish ==
    /\ pc = "render"
    /\ i >= Len(lines)
    /\ out' = out \o FlushParagraph(paragraph_buffer)
    /\ paragraph_buffer' = <<>>
    /\ pc' = "done"
    /\ UNCHANGED <<failure, builds, engine, omml_cache, pandoc_runs, config,
                   lines, directives, i, dispatched>>

\* doc.save raises: build() returns False
SaveFails ==
    /\ pc = "render"
    /\ i >= Len(lines)
    /\ out' = out \o FlushParagraph(paragraph_buffer)
    /\ paragraph_buffer' = <<>>
    /\ pc' = "failed"
    /\ failure' = "save"
    /\ UNCHANGED <<builds, engine, omml_cache, pandoc_runs, config, lines,
                   directives, i, dispatched>>

RenderStep ==
    \/ InsertFigure
    \/ InsertEquation
    \/ InsertTable
    \/ InsertAlgorithm
    \/ InsertRef
    \/ InsertPagebreak
    \/ InsertRawDocx
    \/ InsertStyle
    \/ DispatchEndTag
    \/ SkipEndTag
    \/ InsertHeading
    \/ BlankLine
    \/ HorizontalRule
    \/ Accumulate
    \/ Finish
    \/ SaveFails

----------------------------------------------------------------------------
(* Specifications *)

\* numbered blocks and references to them
PoolNumbering == {L_eq_plain, L_eq, L_ref_eq, L_alg, L_alg_end, L_ref_alg}

\* figures, styles and what can fail in them
PoolFigures ==
    {L_fig_label, L_fig_gone, L_fig_img, L_ref_fig, L_style, L_style_undef}

\* prose and what ends a paragraph
PoolProse == {L_alpha, L_beta, L_blank, L_heading, L_rule, L_pagebreak}

\* a block among prose
PoolBlocks == {L_raw, L_raw_end, L_xml, L_alpha, L_note, L_blank}

\* tables
PoolTables ==
    {L_table, L_table_plain, L_row_head, L_row_data, L_table_end, L_ref_tbl}

Docs ==
    SeqsUpTo(PoolNumbering, MaxLines) \cup SeqsUpTo(PoolFigures, MaxLines)
    \cup SeqsUpTo(PoolProse, MaxLines) \cup SeqsUpTo(PoolBlocks, MaxLines)
    \cup SeqsUpTo(PoolTables, MaxLines)

\* documents for an engine that builds more than once
EngineDocs ==
    {<<L_fig_gone, L_eq, L_table, L_row_head, L_row_sep, L_row_data,
       L_table_end, L_alg, L_alpha, L_alg_end, L_ref_fig>>,
     <<L_heading, L_alpha, L_blank, L_beta, L_rule, L_pagebreak, L_raw, L_xml,
       L_raw_end, L_style, L_table_end>>,
     <<L_table, L_table_end, L_alg, L_alg_end, L_eq, L_eq_bad, L_ref_eq>>,
     <<L_eq_plain, L_eq, L_fig_label, L_beta>>,
     <<L_eq_bad, L_eq, L_eq_bad>>}

\* DocxEngine.__init__, nothing built yet
Init ==
    /\ pc = "idle"
    /\ builds = 0
    /\ fig_counter = 0
    /\ tbl_counter = 0
    /\ eq_counter = 0
    /\ alg_counter = 0
    /\ labels = EmptyMap
    /\ omml_cache = EmptyMap
    /\ pandoc_runs = <<>>
    /\ config = [crossref_mode |-> "seq", chapter_prefix |-> NoneVal,
                 page_break_before_h2 |-> FALSE]
    /\ lines = <<>>
    /\ directives = <<>>
    /\ i = 0
    /\ paragraph_buffer = <<>>
    /\ out = <<>>
    /\ dispatched = <<>>
    /\ failure = "none"

\* one build of one document on a new engine
BuildDocument == builds = 0 /\ \E doc \in Docs, cfg \in Configs : Build(doc, cfg)

BuildOther == builds = 0 /\ BuildRejected

Next == BuildDocument \/ BuildOther \/ RenderStep

Spec == Init /\ [][Next]_vars

\* an engine that is used for several builds, one after the other
BuildNext ==
    builds < MaxBuilds /\ \E doc \in EngineDocs, cfg \in Configs : Build(doc, cfg)

BuildNextOther == builds < MaxBuilds /\ BuildRejected

NextEngine == BuildNext \/ BuildNextOther \/ RenderStep

SpecEngine == Init /\ [][NextEngine]_vars

\* tags as parse_directives meets them: well formed; malformed and unknown
PoolTags == {L_alg, L_alg_end, L_eq_plain, L_fig_img, L_fig_gap}

PoolMalformed == {L_fig_nocolon, L_ref_blank, L_ref_empty, L_ref_upper, L_note}

\* lines that hold more than one tag, among blocks
PoolInline == {L_two_refs, L_alg, L_alg_end}

ParseDocs ==
    SeqsUpTo(PoolTags, MaxLines) \cup SeqsUpTo(PoolMalformed, MaxLines)
    \cup SeqsUpTo(PoolInline, MaxLines)

\* texts parsed after another text
OtherTexts == {<<L_alg, L_note, L_alg_end, L_fig_img>>, <<L_eq_plain>>}

\* one call of parse_directives(text) in a process that has made others
Parse(doc) ==
    /\ pc \in {"idle", "parsed"}
    /\ builds < MaxBuilds
    /\ builds' = builds + 1
    /\ lines' = Split(Join(doc, NL), NL)
    /\ directives' = NewResults(directives) \o parse_directives(Split(Join(doc, NL), NL))
    /\ pc' = "parsed"
    /\ UNCHANGED <<engine, omml_cache, pandoc_runs, config, i, paragraph_buffer,
                   out, dispatched, failure>>

\* the first text the process parses
ParseText == builds = 0 /\ \E doc \in ParseDocs : Parse(doc)

\* the same text once more
ParseAgain == pc = "parsed" /\ Parse(lines)

\* another text
ParseOther == pc = "parsed" /\ \E doc \in OtherTexts : Parse(doc)

NextParse == ParseText \/ ParseAgain \/ ParseOther

\* parse_directives alone, called on one text after the other
SpecParse == Init /\ [][NextParse]_vars

----------------------------------------------------------------------------
(* Vocabulary of the properties *)

Finished == pc = "done"

\* a directive branch raised (doc.save is not part of rendering)
Aborted == pc = "failed" /\ failure # "save"

\* the Directive dispatched last
LastDispatched == DirMap(dispatched[Len(dispatched)])

\* the line numbers of the parsed Directives, in list order
DirectiveLineSeq == [k \in 1..Len(directives) |-> directives[k].line]

NumberedTypes == {"figure", "table", "equation", "algorithm"}

CatOf(type) ==
    CASE type = "figure" -> "fig"
      [] type = "table" -> "tbl"
      [] type = "equation" -> "eq"
      [] type = "algorithm" -> "alg"

\* blocks that carry a number
IsNumbered(b) == b.kind \in {"caption", "equation"}

\* label of the directive a block comes from
LabelOf(b) == OrEmpty(label(DirMap(b.src)))

\* how many directives of a type have been dispatched among the first n
DispatchedOf(type, n) ==
    Cardinality({k \in 1..n : DirMap(dispatched[k]).type = type})

----------------------------------------------------------------------------
(* C1 *)

\* C1: when a render pass has ended, every Directive that parse_directives
\* returned has been dispatched exactly once, in increasing line order.
C1_EveryDirectiveDispatchedOnce == Finished => dispatched = DirectiveLineSeq

----------------------------------------------------------------------------
(* C2 *)

\* how many of the first k blocks are numbered blocks of category cat
NumberedUpTo(cat, k) ==
    Cardinality({j \in 1..k : IsNumbered(out[j]) /\ out[j].cat = cat})

\* the same, counting only blocks of labeled directives
LabeledUpTo(cat, k) ==
    Cardinality({j \in 1..k : IsNumbered(out[j]) /\ out[j].cat = cat
                              /\ LabelOf(out[j]) # <<>>})

\* C2 as stated: the k-th labeled instance of a category is numbered k.
C2_LabeledInstanceNumberedK ==
    \A k \in 1..Len(out) :
        IsNumbered(out[k]) /\ LabelOf(out[k]) # <<>>
            => out[k].num = LabeledUpTo(out[k].cat, k)

\* C2 as amended: each counter is the number of directives of its category
\* dispatched so far in this build, labeled or not (so it starts at 0, moves
\* by exactly 1 with each such dispatch and is untouched by the other
\* categories), and the k-th rendered instance of a category is numbered k.
C2_EveryInstanceCounted ==
    /\ fig_counter = DispatchedOf("figure", Len(dispatched))
    /\ tbl_counter = DispatchedOf("table", Len(dispatched))
    /\ eq_counter = DispatchedOf("equation", Len(dispatched))
    /\ alg_counter = DispatchedOf("algorithm", Len(dispatched))
    /\ \A k \in 1..Len(out) :
           IsNumbered(out[k]) => out[k].num = NumberedUpTo(out[k].cat, k)

\* an unlabeled equation and a labeled one after it, both numbered, and a
\* second category rendered in the same pass
C2_Witness ==
    /\ Finished
    /\ alg_counter >= 1
    /\ \E j, k \in 1..Len(out) :
           /\ j < k
           /\ out[j].kind = "equation" /\ LabelOf(out[j]) = <<>>
           /\ out[k].kind = "equation" /\ LabelOf(out[k]) # <<>>
           /\ out[k].num = 2

----------------------------------------------------------------------------
(* C3 *)

\* the bookmarks the output document holds
Bookmarks ==
    {out[k].field.bookmark.v :
        k \in {j \in 1..Len(out) : IsNumbered(out[j]) /\ out[j].field.bookmark.has}}

\* some figure, table, equation or algorithm directive of the document
\* defines the category-qualified label
DefinedInDocument(qualified) ==
    \E k \in 1..Len(directives) :
        /\ directives[k].type \in NumberedTypes
        /\ OrEmpty(label(directives[k])) # <<>>
        /\ LabelKey(CatOf(directives[k].type), OrEmpty(label(directives[k])))
               = qualified

\* C3: in 'seq' mode, when the pass has ended, the REF field of every ref
\* whose label some directive of the document defines targets a bookmark
\* that the output document holds.
C3_DeferredRefHasBookmark ==
    (Finished /\ config.crossref_mode = "seq") =>
        \A k \in 1..Len(out) :
            (out[k].kind = "ref_field" /\ DefinedInDocument(out[k].label))
                => out[k].field.target \in Bookmarks

----------------------------------------------------------------------------
(* C4 *)

\* the reference text recorded for a numbered block
ReferenceText(b) ==
    CASE b.cat = "fig" -> <<"Zu">> \o NumText(config.chapter_prefix, b.num)
      [] b.cat = "tbl" -> <<"Hyou">> \o NumText(config.chapter_prefix, b.num)
      [] b.cat = "alg" -> <<"Algorithm ">> \o NumText(config.chapter_prefix, b.num)
      [] b.cat = "eq" ->
            <<"(">> \o NumText(config.chapter_prefix, b.num) \o <<")">>

\* positions before k of the blocks whose directive defines the label
DefinedBefore(qualified, k) ==
    {j \in 1..(k - 1) :
        IsNumbered(out[j]) /\ LabelKey(out[j].cat, LabelOf(out[j])) = qualified}

Placeholder(lbl) == <<"[">> \o lbl \o <<"]">>

\* C4: outside 'seq' mode a ref shows the reference text of the last block
\* rendered before it whose directive defines its label, and the
\* placeholder '[label]' when there is none; dispatching a ref never raises.
C4_ImmediateRef ==
    /\ config.crossref_mode # "seq" =>
         \A k \in 1..Len(out) :
            out[k].kind = "ref_text" =>
                LET defs == DefinedBefore(out[k].label, k)
                IN IF defs # {}
                   THEN out[k].text =
                            ReferenceText(out[CHOOSE j \in defs :
                                                  \A h \in defs : h <= j])
                   ELSE out[k].text = Placeholder(out[k].label)
    /\ (Aborted /\ dispatched # <<>>) => LastDispatched.type # "ref"

\* a forward reference and a backward reference to the same label
C4_Witness ==
    /\ Finished
    /\ config.crossref_mode # "seq"
    /\ \E j, k \in 1..Len(out) :
           /\ j < k
           /\ out[j].kind = "ref_text" /\ out[k].kind = "ref_text"
           /\ out[j].label = out[k].label
           /\ out[j].text = Placeholder(out[j].label)
           /\ out[k].text # Placeholder(out[k].label)

----------------------------------------------------------------------------
(* C5 *)

\* the failures of a single directive that C5 names
NamedFailure(d) ==
    \/ d.type = "figure" /\ FileKind(OrEmpty(path(d))) = "missing"
    \/ d.type = "table"
    \/ d.type = "raw-docx"
    \/ d.type = "style" /\ ~StyleKnown(style_name(d))

\* C5: a missing image file, a malformed table body, an invalid raw-docx
\* fragment or a style the document does not define never aborts the build.
C5_NamedFailuresNeverAbort ==
    (Aborted /\ dispatched # <<>>) => ~NamedFailure(LastDispatched)

----------------------------------------------------------------------------
(* C6 *)

\* C6: a figure directive with only a label has path, caption and width
\* None, and dispatching it does not raise and emits a caption block.
C6_LabelOnlyFigureRenders ==
    \A k \in 1..Len(dispatched) :
        LET d == DirMap(dispatched[k])
        IN (d.type = "figure" /\ Len(d.args) = 1) =>
              /\ ~path(d).has /\ ~caption(d).has /\ ~width(d).has
              /\ ~(Aborted /\ k = Len(dispatched))
              /\ \E j \in 1..Len(out) :
                     out[j].kind = "caption" /\ out[j].src = d.line

----------------------------------------------------------------------------
(* C7 *)

\* C7: a dispatched figure whose non-empty path is not on disk has exactly
\* one block, its caption, numbered with the figure counter of that moment;
\* its label is recorded and its dispatch does not raise.
C7_MissingImageCaptionOnly ==
    \A k \in 1..Len(dispatched) :
        LET d == DirMap(dispatched[k])
        IN (d.type = "figure" /\ OrEmpty(path(d)) # <<>>
            /\ FileKind(OrEmpty(path(d))) = "missing") =>
              /\ ~(Aborted /\ k = Len(dispatched))
              /\ LET mine == {j \in 1..Len(out) : out[j].src = d.line}
                 IN /\ Cardinality(mine) = 1
                    /\ \A j \in mine :
                           /\ out[j].kind = "caption"
                           /\ out[j].num = DispatchedOf("figure", k)
              /\ LabelKey("fig", OrEmpty(label(d))) \in DOMAIN labels

\* such a figure has been rendered, and the pass went on to its end
C7_Witness ==
    /\ Finished
    /\ Len(dispatched) >= 2
    /\ LET d == DirMap(dispatched[1])
       IN /\ d.type = "figure"
          /\ FileKind(OrEmpty(path(d))) = "missing"
          /\ fig_counter >= 1

----------------------------------------------------------------------------
(* C8 *)

\* the line lies in the body of a parsed block or is its closing tag
InsideBlock(n) ==
    \E k \in 1..Len(directives) :
        LET d == directives[k]
        IN /\ d.body.has
           /\ d.line < n
           /\ n <= ScanBlock(lines, d.line + 1, BlockEnd(d.type))

\* a prose line: not a directive line, not inside a block, not blank, not a
\* heading, not a horizontal rule
ProseLine(n) ==
    /\ n \in 1..Len(lines)
    /\ n \notin DirLines
    /\ ~InsideBlock(n)
    /\ Strip(lines[n]) # <<>>
    /\ ~HeadingRe(lines[n])
    /\ ~RuleRe(Strip(lines[n]))

\* last line of the run of prose lines that starts at n
RECURSIVE RunEnd(_)
RunEnd(n) == IF ProseLine(n + 1) THEN RunEnd(n + 1) ELSE n

\* the maximal runs of prose lines from line n on, each as one paragraph
RECURSIVE ProseRuns(_)
ProseRuns(n) ==
    IF n > Len(lines) THEN <<>>
    ELSE IF ProseLine(n)
    THEN <<[kind |-> "paragraph", src |-> n,
            text |-> Strip(Join(SubSeq(lines, n, RunEnd(n)), NL))]>>
         \o ProseRuns(RunEnd(n) + 1)
    ELSE ProseRuns(n + 1)

IsParagraph(b) == b.kind = "paragraph"

\* C8: when the pass has ended, the paragraph blocks are exactly the maximal
\* runs of prose lines, in order, each before every block of a later line;
\* blocks are in source order and the paragraph buffer is empty.
C8_ProseInSourceOrder ==
    Finished =>
        /\ SelectSeq(out, IsParagraph) = ProseRuns(1)
        /\ paragraph_buffer = <<>>
        /\ \A j, k \in 1..Len(out) :
               j < k => /\ out[j].src <= out[k].src
                        /\ IsParagraph(out[j]) => out[j].src < out[k].src

----------------------------------------------------------------------------
(* C9 *)

\* the label keys that the numbered directives dispatched in this build set
RecordedKeys ==
    {LabelKey(CatOf(DirMap(dispatched[k]).type),
              OrEmpty(label(DirMap(dispatched[k])))) :
        k \in {j \in 1..Len(dispatched) :
                  /\ DirMap(dispatched[j]).type \in NumberedTypes
                  /\ ~(Aborted /\ j = Len(dispatched))}}

CountersOfThisBuild ==
    /\ fig_counter = DispatchedOf("figure", Len(dispatched))
    /\ tbl_counter = DispatchedOf("table", Len(dispatched))
    /\ eq_counter = DispatchedOf("equation", Len(dispatched))
    /\ alg_counter = DispatchedOf("algorithm", Len(dispatched))

\* C9: rendering starts with the four counters at 0 and no label, whatever
\* an earlier build on the engine left; during rendering no counter goes
\* down; and what a build leaves is what its own directives account for.
C9_FreshStatePerBuild ==
    [][/\ (pc' = "render" /\ dispatched' = <<>>) =>
              (counters' = <<0, 0, 0, 0>> /\ labels' = EmptyMap)
       /\ pc = "render" =>
              /\ fig_counter' >= fig_counter
              /\ tbl_counter' >= tbl_counter
              /\ eq_counter' >= eq_counter
              /\ alg_counter' >= alg_counter
       /\ pc' \in {"done", "failed"} =>
              (CountersOfThisBuild' /\ (DOMAIN labels)' = RecordedKeys')]_vars

\* a second build that numbers equations has ended on an engine whose first
\* build has numbered some
C9_Witness ==
    /\ builds = 2
    /\ Finished
    /\ eq_counter = 2
    /\ Len(pandoc_runs) >= 2

----------------------------------------------------------------------------
(* C10 *)

\* the recognised tag name of a line, "" when it has none
LineTag(line) ==
    IF DIRECTIVE_RE(line).matched THEN TagName(DIRECTIVE_RE(line)) ELSE ""

\* lines after the opening tag of d whose tag name closes d
ClosingLines(d) ==
    {n \in (d.line + 1)..Len(lines) : LineTag(lines[n]) = BlockEnd(d.type)}

\* C10: the body of a block directive with a closing tag is the lines
\* strictly between its opening tag and the first closing line, joined by
\* newlines, and no Directive comes from a line of the body or from the
\* closing line.
C10_BlockBodyVerbatim ==
    \A k \in 1..Len(directives) :
        LET d == directives[k]
        IN (d.type \in BlockNames /\ ClosingLines(d) # {}) =>
              LET close == CHOOSE n \in ClosingLines(d) :
                               \A m \in ClosingLines(d) : n <= m
              IN /\ d.body = Some(Join(SubSeq(lines, d.line + 1, close - 1), NL))
                 /\ \A h \in 1..Len(directives) :
                        directives[h].line \notin (d.line + 1)..close

\* a closed block whose body holds a comment tag and a blank line
C10_Witness ==
    \E k \in 1..Len(directives) :
        /\ directives[k].type = "raw-docx"
        /\ ClosingLines(directives[k]) # {}
        /\ directives[k].body.v = L_note \o <<NL>> \o L_blank

----------------------------------------------------------------------------
(* C11 *)

\* C11: a block directive with no closing line after it is the last
\* Directive of the list, the only one of its line, and its body is every
\* line after its opening tag up to the end of the text, joined by newlines.
C11_UnterminatedBlockToEnd ==
    \A k \in 1..Len(directives) :
        LET d == directives[k]
        IN (d.type \in BlockNames /\ ClosingLines(d) = {}) =>
              /\ d.body = Some(Join(SubSeq(lines, d.line + 1, Len(lines)), NL))
              /\ k = Len(directives)
              /\ \A h \in 1..(k - 1) : directives[h].line < d.line

\* an unterminated block whose body holds a recognized tag
C11_Witness ==
    /\ pc = "parsed"
    /\ directives # <<>>
    /\ LET d == directives[Len(directives)]
       IN /\ d.type = "algorithm"
          /\ ClosingLines(d) = {}
          /\ \E n \in (d.line + 1)..Len(lines) :
                 LineTag(lines[n]) \in DirectiveNames

----------------------------------------------------------------------------
(* C12 *)

\* the block directives of the document that no closing line ends
Unterminated ==
    {k \in 1..Len(directives) :
        directives[k].type \in BlockNames /\ ClosingLines(directives[k]) = {}}

\* C12: a build that has rendered a document holding an unterminated block
\* has reported a warning.
C12_UnterminatedBlockReported ==
    (Finished /\ Unterminated # {}) =>
        \E k \in 1..Len(Printed) : Printed[k] = "WARNING"

----------------------------------------------------------------------------
(* C13 *)

\* the lines that hold the opening tag of a directive: a recognized tag
\* name, outside every block body and not the closing line of a block
OpeningLines ==
    {n \in 1..Len(lines) :
        LineTag(lines[n]) \in DirectiveNames /\ ~InsideBlock(n)}

\* C13: the line fields of the parsed Directives are strictly increasing,
\* each is the 1-based index of the line holding the directive's opening
\* tag, and the renderer's map from line to Directive holds every Directive.
C13_LinesStrictlyIncreasing ==
    /\ \A k \in 1..Len(directives) :
           /\ directives[k].line \in 1..Len(lines)
           /\ LineTag(lines[directives[k].line]) = directives[k].type
           /\ DirMap(directives[k].line) = directives[k]
    /\ \A j, k \in 1..Len(directives) :
           j < k => directives[j].line < directives[k].line
    /\ DirLines = OpeningLines
    /\ Cardinality(DirLines) = Len(directives)

\* a closed block with a body line, and a directive after its closing tag
C13_Witness ==
    /\ pc = "parsed"
    /\ \E k \in 1..(Len(directives) - 1) :
           /\ directives[k].type \in BlockNames
           /\ directives[k + 1].line = directives[k].line + 3

----------------------------------------------------------------------------
(* C14 *)

\* index of the first token t of line at or after k, Len(line) + 1 if none
RECURSIVE Find(_, _, _)
Find(line, t, k) ==
    IF k > Len(line) \/ line[k] = t THEN k ELSE Find(line, t, k + 1)

\* the text between the colon that follows the tag name and the end of the
\* tag; None when no colon follows the name
ArgString(line) ==
    LET q == SkipWs(line, Find(line, "<!--", 1) + 1)
        c == SkipWs(line, q + 1)
        e == Find(line, "-->", q + 1)
    IN  IF c <= Len(line) /\ line[c] = ":"
        THEN Some(SubSeq(line, c + 1, e - 1))
        ELSE NoneVal

\* C14: args is the argument string split on '|', each field trimmed, in
\* order; it is empty when the tag has no colon section; label is the first
\* field, and an accessor of a field beyond the end of args is None.
C14_ArgsSplitAndTrimmed ==
    \A k \in 1..Len(directives) :
        LET d == directives[k]
            raw == ArgString(lines[d.line])
        IN /\ raw.has => d.args = StripAll(Split(raw.v, "|"))
           /\ ~raw.has => d.args = <<>>
           /\ Len(d.args) >= 1 => label(d) = Some(d.args[1])
           /\ Len(d.args) < 1 => ~label(d).has /\ ~style_name(d).has
           /\ Len(d.args) < 2 =>
                  ~path(d).has /\ ~latex(d).has /\ ~style_text(d).has
           /\ (Len(d.args) < 2 /\ d.type \in {"table", "algorithm"}) =>
                  ~caption(d).has
           /\ (Len(d.args) < 3 /\ d.type = "figure") => ~caption(d).has
           /\ Len(d.args) < 4 => ~width(d).has

\* one text with a tag of four fields, a tag with an empty field and a tag
\* with no colon section
C14_Witness ==
    /\ pc = "parsed"
    /\ \E a, b, c \in 1..Len(directives) :
           /\ Len(directives[a].args) = 4 /\ width(directives[a]).has
           /\ Len(directives[b].args) = 3 /\ path(directives[b]) = Some(<<>>)
           /\ directives[c].args = <<>> /\ ~label(directives[c]).has

----------------------------------------------------------------------------
(* C15 *)

\* lines outside every block that hold a tag whose name is not a directive
UnknownTagLines ==
    {n \in 1..Len(lines) :
        /\ DIRECTIVE_RE(lines[n]).matched
        /\ LineTag(lines[n]) \notin DirectiveNames
        /\ ~InsideBlock(n)}

\* the line is part of the text
Contains(text, line) ==
    \E a \in 1..(Len(text) - Len(line) + 1) :
        SubSeq(text, a, a + Len(line) - 1) = line

\* C15: a line outside every block whose tag name is unknown gives no
\* Directive, and when the pass has ended a paragraph of the output holds
\* the line as literal text.
C15_UnknownTagIsProse ==
    /\ UnknownTagLines \cap DirLines = {}
    /\ Finished =>
          \A n \in UnknownTagLines :
              \E j \in 1..Len(out) :
                  /\ out[j].kind = "paragraph"
                  /\ out[j].src <= n
                  /\ Contains(out[j].text, lines[n])

----------------------------------------------------------------------------
(* C16 *)

\* the name of the comment tag of a line, whatever stands between the name
\* and the end of the tag; "" when the line holds no such tag
NamedTag(line) ==
    LET q == SkipWs(line, Find(line, "<!--", 1) + 1)
    IN  IF q <= Len(line) /\ line[q] \in NameTokens
           /\ Find(line, "-->", q + 1) <= Len(line)
        THEN Lower(line[q])
        ELSE ""

\* C16: every line outside a block that holds a tag with a recognized name,
\* well formed or not, yields a Directive of that kind.
C16_MalformedTagTolerated ==
    \A n \in 1..Len(lines) :
        (NamedTag(lines[n]) \in DirectiveNames /\ ~InsideBlock(n)) =>
            \E k \in 1..Len(directives) :
                /\ directives[k].line = n
                /\ directives[k].type = NamedTag(lines[n])

----------------------------------------------------------------------------
(* C17 *)

\* the table a body stands for: header from its first non-blank line, a
\* separator line after it left out, one fitted row for each line that remains
ExpectedTable(body) ==
    LET ls == NonBlank(Split(body, NL))
        header == Cells(ls[1])
        first == IF Len(ls) >= 2 /\ SeparatorRe(ls[2]) THEN 3 ELSE 2
    IN  [header |-> header,
         rows |-> [r \in 1..(Len(ls) - first + 1) |->
                      FitRow(Cells(ls[first + r - 1]), Len(header))]]

\* C17: every dispatched table directive whose body has a non-blank line
\* has exactly one table block, with the header and the rows of its body.
C17_TableFromBody ==
    \A k \in 1..Len(dispatched) :
        LET d == DirMap(dispatched[k])
        IN (d.type = "table" /\ NonBlank(Split(d.body.v, NL)) # <<>>) =>
              LET mine == {j \in 1..Len(out) :
                              out[j].kind = "table" /\ out[j].src = d.line}
              IN /\ Cardinality(mine) = 1
                 /\ \A j \in mine :
                        /\ out[j].header = ExpectedTable(d.body.v).header
                        /\ out[j].rows = ExpectedTable(d.body.v).rows

----------------------------------------------------------------------------
(* C18 *)

\* C18: no expression has been handed to the converter twice; the cache
\* holds exactly the expressions handed over, each with the outcome of its
\* conversion, a failure included; and an equation shows its literal text
\* exactly when the cache holds a failure for its expression.
C18_ConverterOncePerExpression ==
    /\ \A j, k \in 1..Len(pandoc_runs) :
           j # k => pandoc_runs[j] # pandoc_runs[k]
    /\ DOMAIN omml_cache = {pandoc_runs[k] : k \in 1..Len(pandoc_runs)}
    /\ \A e \in DOMAIN omml_cache : omml_cache[e] = ConverterSucceeds(e)
    /\ \A k \in 1..Len(out) :
           out[k].kind = "equation" =>
               /\ out[k].latex \in DOMAIN omml_cache
               /\ (out[k].math = "text") = ~omml_cache[out[k].latex]

\* the second build of an engine has rendered twice an expression whose
\* conversion fails, and once an expression whose conversion succeeds
C18_Witness ==
    /\ builds = 2
    /\ Finished
    /\ \E j, k \in 1..Len(out) :
           /\ j < k
           /\ out[j].kind = "equation" /\ out[k].kind = "equation"
           /\ out[j].latex = out[k].latex
           /\ out[j].math = "text" /\ out[k].math = "text"
    /\ \E k \in 1..Len(out) :
           out[k].kind = "equation" /\ out[k].math = "omml"

----------------------------------------------------------------------------
(* C19 *)

----------------------------------------------------------------------------
(* C20 *)

\* the category-qualified label of a numbered block
KeyOf(b) == LabelKey(b.cat, LabelOf(b))

\* C20: the label map holds an entry for the qualified label of every
\* numbered block rendered so far and no other entry, and each entry is the
\* reference text, prefix and number, of the last block rendered with that
\* qualified label; the prefix is that of the build's configuration.
C20_LabelMapHoldsLastNumber ==
    /\ DOMAIN labels =
           {KeyOf(out[j]) : j \in {h \in 1..Len(out) : IsNumbered(out[h])}}
    /\ \A key \in DOMAIN labels :
           LET defs == DefinedBefore(key, Len(out) + 1)
               last == CHOOSE j \in defs : \A h \in defs : h <= j
           IN labels[key] = ReferenceText(out[last])
    /\ \A j \in 1..Len(out) :
           (IsNumbered(out[j]) /\ config.crossref_mode # "seq") =>
               LET n == IF config.chapter_prefix.has
                        THEN config.chapter_prefix.v \o <<"-">> \o Str(out[j].num)
                        ELSE Str(out[j].num)
               IN Contains(out[j].text, n)

\* with a prefix configured, two numbered blocks with the same qualified
\* label have been rendered, and the entry is that of the second
C20_Witness ==
    /\ Finished
    /\ config.chapter_prefix.has
    /\ \E j, k \in 1..Len(out) :
           /\ j < k
           /\ IsNumbered(out[j]) /\ IsNumbered(out[k])
           /\ KeyOf(out[j]) = KeyOf(out[k])
           /\ out[k].num = 2
           /\ labels[KeyOf(out[k])] = ReferenceText(out[k])
           /\ labels[KeyOf(out[k])] # ReferenceText(out[j])

----------------------------------------------------------------------------
(* C21 *)

\* 0-based index at which parse_directives resumed after the block d
ParserResume(d) ==
    BlockResume(ScanBlock(lines, d.line + 1, BlockEnd(d.type))) - 1

\* C21: the step that dispatches a block directive leaves the render loop
\* at the index at which the parser resumed after that block, or past the
\* end of the lines when the parser resumed past the end.
C21_RenderResumesWhereParserDid ==
    [][(Len(dispatched') = Len(dispatched) + 1 /\ pc' = "render"
        /\ DirMap(i + 1).body.has)
          => IF ParserResume(DirMap(i + 1)) >= Len(lines)
             THEN i' >= Len(lines)
             ELSE i' = ParserResume(DirMap(i + 1))]_vars

----------------------------------------------------------------------------
(* C22 *)

\* C22: when the pass has ended, every equation block holds its expression,
\* the converted element when the conversion succeeds and the source text
\* otherwise, and its number after it.
C22_EveryEquationShowsExpression ==
    Finished =>
        \A k \in 1..Len(out) :
            out[k].kind = "equation" =>
                /\ out[k].math =
                       IF ConverterSucceeds(out[k].latex) THEN "omml" ELSE "text"
                /\ out[k].num >= 1
                /\ out[k].text \o out[k].after # <<>>

----------------------------------------------------------------------------
(* C23 *)

\* how many recognized directive tags a line holds
TagCount(line) ==
    Cardinality({p \in 1..Len(line) :
                    /\ MatchAt(line, p).matched
                    /\ TagName(MatchAt(line, p)) \in DirectiveNames})

\* C23: every line outside a block has as many Directives as it holds
\* recognized tags.
C23_OneDirectivePerTag ==
    \A n \in 1..Len(lines) :
        ~InsideBlock(n) =>
            Cardinality({k \in 1..Len(directives) : directives[k].line = n})
                = TagCount(lines[n])

====
